---- MODULE Spec2Model ----
(***************************************************************************)
(* Model of skyclean.silc: the name->column mapper find_f_from_names, the  *)
(* mixing-matrix builders of SpectralVector, ILCConstraints and the        *)
(* DownloadData.download_all driver.                                       *)
(*                                                                         *)
(* Conventions.  A Python str is a sequence of one-character strings, so   *)
(* that str.lower() is computed character by character.  A Python list is  *)
(* a sequence; list positions stored in values (idxs) are Python's,        *)
(* 0-based.  A dict is the sequence of its keys in insertion order.  A     *)
(* float is a tuple of strings naming the value (<<"const","0">> is 0.0).  *)
(***************************************************************************)
EXTENDS Integers, Sequences, FiniteSets, TLC

VARIABLES
  \* find_f_from_names: one call and, after it, the call with a repeat
  pcN, component_names, selected, fnres, fnprev,
  \* SpectralVector: the inputs of one call, its outcome, what it touched
  pcB, source, components_order, frequencies, file_templates, disk,
  mask_path, bres, entered, reads,
  \* ILCConstraints.find_f_from_extract_comp
  target, F_cols_arg, refvec_arg, ares,
  \* DownloadData
  pcD, components, dl_frequencies, realisations, start_realisation,
  overwrite, files, ci, fi, ri, http, written, run, prevrun

varsN == <<pcN, component_names, selected, fnres, fnprev>>
varsB == <<pcB, source, components_order, frequencies, file_templates, disk,
           mask_path, bres, entered, reads>>
varsA == <<target, F_cols_arg, refvec_arg, ares>>
varsD == <<pcD, components, dl_frequencies, realisations, start_realisation,
           overwrite, files, ci, fi, ri, http, written, run, prevrun>>
vars == <<varsN, varsB, varsA, varsD>>

-----------------------------------------------------------------------------
(* Bounds *)
MaxNames == 3
MaxSel == 2
MaxOrder == 2
MaxFreq == 2
MaxTarget == 1
MaxRealisations == 2
MaxComponents == 2

SeqsUpTo(S, n) == UNION {[1..k -> S] : k \in 0..n}

-----------------------------------------------------------------------------
(* Strings *)
cmb == <<"c", "m", "b">>
Cmb == <<"C", "m", "b">>
tsz == <<"t", "s", "z">>
sync == <<"s", "y", "n", "c">>
foo == <<"f", "o", "o">>
noise == <<"n", "o", "i", "s", "e">>
dust == <<"d", "u", "s", "t">>

LowerChar(c) ==
  CASE c = "C" -> "c"
    [] c = "M" -> "m"
    [] c = "B" -> "b"
    [] c = "T" -> "t"
    [] c = "S" -> "s"
    [] c = "Z" -> "z"
    [] OTHER -> c

LowerIdentity(s) == s

\* str(n).lower()
Lower(s) == [i \in DOMAIN s |-> LowerChar(s[i])]

LowerAll(names) == [i \in DOMAIN names |-> Lower(names[i])]

Range(s) == {s[i] : i \in DOMAIN s}

-----------------------------------------------------------------------------
(* find_f_from_names *)

Zero == <<"const", "0">>
One == <<"const", "1">>

NoResult == [ok |-> FALSE, error |-> "none", name |-> <<>>, available |-> <<>>,
             f |-> <<>>, idxs |-> <<>>]

Returned(f, idxs) ==
  [ok |-> TRUE, error |-> "none", name |-> <<>>, available |-> <<>>,
   f |-> f, idxs |-> idxs]

NotFoundLowered(name, names) ==
  [ok |-> FALSE, error |-> "ValueError", name |-> Lower(name),
   available |-> LowerAll(names), f |-> <<>>, idxs |-> <<>>]

\* raise ValueError(f"{name} not in component_names={component_names}")
NotFound(name, names) ==
  [ok |-> FALSE, error |-> "ValueError", name |-> name, available |-> names,
   f |-> <<>>, idxs |-> <<>>]

\* isinstance(selected, (str, bytes)): selected = [selected]
AsList(sel) == IF sel.kind = "str" THEN <<sel.val>> ELSE sel.val

\* list.index(x): the first position holding x (1-based here)
Index(lst, x) ==
  CHOOSE i \in DOMAIN lst : lst[i] = x /\ \A j \in 1..(i - 1) : lst[j] # x

MarkAlways(f, idxs, idx) ==
  [f |-> [f EXCEPT ![idx] = One], idxs |-> Append(idxs, idx - 1)]

\* if idx not in idxs: f[idx] = 1.0; idxs.append(idx)
Mark(f, idxs, idx) ==
  IF (idx - 1) \in Range(idxs)
    THEN [f |-> f, idxs |-> idxs]
    ELSE [f |-> [f EXCEPT ![idx] = One], idxs |-> Append(idxs, idx - 1)]

RECURSIVE FindLoop(_, _, _, _, _, _)
\* for name in selected: ...
FindLoop(names, names_lower, sel, k, f, idxs) ==
  IF k > Len(sel) THEN Returned(f, idxs)
  ELSE LET key == Lower(sel[k]) IN
       IF key \notin Range(names_lower) THEN NotFound(sel[k], names)
       ELSE LET m == Mark(f, idxs, Index(names_lower, key)) IN
            FindLoop(names, names_lower, sel, k + 1, m.f, m.idxs)

find_f_from_names(names, sel) ==
  FindLoop(names, LowerAll(names), AsList(sel), 1,
           [i \in DOMAIN names |-> Zero], <<>>)

-----------------------------------------------------------------------------
(* SpectralVector *)

\* An optional argument: Python's None, or a value
NoneArg == [given |-> FALSE, val |-> <<>>]
Arg(v) == [given |-> TRUE, val |-> v]

PlanckFrequencies == <<"030", "044", "070", "100", "143", "217", "353", "545", "857">>

\* The keys of vecs in build_F_theory
TheoryKeys == {cmb, tsz, sync}

DefaultOrder == <<cmb, tsz, sync>>

\* vecs[c][i] at frequency tag nu: np.ones_like(nu) for cmb, the closed
\* forms for tsz and sync (named, not evaluated)
TheoryResponse(c, nu) == IF c = cmb THEN One ELSE <<"theory", c[1], nu>>

RECURSIVE DictKeys(_)
\* The keys of a dict filled by assigning d[k] for k in lst, in insertion
\* order: a key assigned again keeps its first place
DictKeys(lst) ==
  IF lst = <<>> THEN <<>>
  ELSE LET h == DictKeys(SubSeq(lst, 1, Len(lst) - 1))
           x == lst[Len(lst)]
       IN IF x \in Range(h) THEN h ELSE Append(h, x)

Dict(keys, val) == [keys |-> keys, val |-> val]

EmptyDict == Dict(<<>>, <<>>)

\* np.column_stack of a non-empty list of 1-D arrays of one length
ColumnStack(vs) == [shape |-> <<Len(vs[1]), Len(vs)>>, cols |-> vs]

\* np.zeros((n, 0))
ZeroColumns(n) == [shape |-> <<n, 0>>, cols |-> <<>>]

NoMatrix == [shape |-> <<0, 0>>, cols |-> <<>>]

Built(F, F_cols, reference_vectors, frequencies_out) ==
  [ok |-> TRUE, error |-> "none", msg |-> "", mentions |-> {},
   F |-> F, F_cols |-> F_cols, reference_vectors |-> reference_vectors,
   frequencies_out |-> frequencies_out]

\* raise ValueError(msg); mentions holds the values formatted into msg
Raised(msg, mentions) ==
  [ok |-> FALSE, error |-> "ValueError", msg |-> msg, mentions |-> mentions,
   F |-> NoMatrix, F_cols |-> <<>>, reference_vectors |-> EmptyDict,
   frequencies_out |-> <<>>]

NotBuilt ==
  [ok |-> FALSE, error |-> "none", msg |-> "", mentions |-> {},
   F |-> NoMatrix, F_cols |-> <<>>, reference_vectors |-> EmptyDict,
   frequencies_out |-> <<>>]

IsTheoryKey(c) == c \in TheoryKeys

TheoryColsNoLower(order) ==
  IF ~order.given THEN DefaultOrder
  ELSE SelectSeq(order.val, IsTheoryKey)

\* F_cols of build_F_theory
TheoryCols(order) ==
  IF ~order.given THEN DefaultOrder
  ELSE SelectSeq(LowerAll(order.val), IsTheoryKey)

\* np.column_stack([reference_vectors[c] for c in F_cols]) if F_cols
\* else np.zeros((n, 0))
Stack(F_cols, vecs, n) ==
  IF F_cols # <<>>
    THEN ColumnStack([j \in DOMAIN F_cols |-> vecs[F_cols[j]]])
    ELSE ZeroColumns(n)

build_F_theory(freqs, order) ==
  LET fr == IF ~freqs.given THEN PlanckFrequencies ELSE freqs.val
      vecs == [c \in TheoryKeys |-> [i \in DOMAIN fr |-> TheoryResponse(c, fr[i])]]
      F_cols == TheoryCols(order)
      reference_vectors ==
        Dict(DictKeys(F_cols), [c \in Range(F_cols) |-> vecs[c]])
  IN Built(Stack(F_cols, reference_vectors.val, Len(fr)), F_cols,
           reference_vectors, fr)

\* os.path.join(base_dir, tmpl.format(frequency=f, realisation=realization))
base_dir == "data"
realization == "0"
MapPath(tmpl, f) == <<base_dir, tmpl, f, realization>>
MaskFile(path) == <<"", path, "", "">>

\* What the pixels of the map at a path are: some finite ones, no finite
\* one at all, or finite ones whose mean overflows
PixelsOf(path) ==
  CASE path[3] = "044" -> "overflow"
    [] path[2] = "tsz_f{frequency}_r{realisation}.fits" -> "none finite"
    [] OTHER -> "finite"

\* _mean(path, mask): vals.mean() if vals.size else 0.0
Mean(path, mask) ==
  CASE PixelsOf(path) = "none finite" -> Zero
    [] PixelsOf(path) = "overflow" -> <<"inf">>
    [] OTHER -> <<"mean", path[2], path[3], mask>>

\* np.nan_to_num(v, nan=0.0, posinf=0.0, neginf=0.0), one entry
NanToNum(x) == IF x \in {<<"nan">>, <<"inf">>, <<"-inf">>} THEN Zero ELSE x

EntryAlwaysRead(tmpl, f, mask, existing) == NanToNum(Mean(MapPath(tmpl, f), mask))

\* v[i]: 0.0 unless os.path.exists(path), then _mean(path, mask); sanitised
Entry(tmpl, f, mask, existing) ==
  IF MapPath(tmpl, f) \in existing
    THEN NanToNum(Mean(MapPath(tmpl, f), mask))
    ELSE Zero

HasTemplate(templates, c) == c \in Range(templates.keys) /\ templates.val[c] # "None"

\* F_cols of build_F_empirical: components_order or default, lowered, kept
\* when file_templates holds a template for the name
EmpiricalCols(templates, order) ==
  LET wanted == LowerAll(IF order.given /\ order.val # <<>>
                           THEN order.val ELSE DefaultOrder)
      Usable(c) == HasTemplate(templates, c)
  IN SelectSeq(wanted, Usable)

NoValidComponents == "No valid components in file_templates for empirical F."

build_F_empirical(templates, freqs, mask, order, existing) ==
  LET F_cols == EmpiricalCols(templates, order)
      fr == freqs.val
      vec(c) == [i \in DOMAIN fr |-> Entry(templates.val[c], fr[i], mask, existing)]
      reference_vectors == Dict(DictKeys(F_cols), [c \in Range(F_cols) |-> vec(c)])
  IN IF F_cols = <<>> THEN Raised(NoValidComponents, {})
     ELSE Built(Stack(F_cols, reference_vectors.val, Len(fr)), F_cols,
                reference_vectors, fr)

\* The paths hp.read_map is called on by build_F_empirical
EmpiricalReads(templates, freqs, mask, order, existing) ==
  (IF mask # "" THEN {MaskFile(mask)} ELSE {})
    \cup {p \in existing :
            \E c \in Range(EmpiricalCols(templates, order)), i \in DOMAIN freqs.val :
              p = MapPath(templates.val[c], freqs.val[i])}

UnknownSource == "source must be 'theory' or 'empirical'."

Call(name, res) == [called |-> <<name>>, res |-> res]

\* get_F(source, **kwargs): the builder it enters, and what it returns
get_F(src, templates, freqs, mask, order, existing) ==
  CASE src = "theory" -> Call("build_F_theory", build_F_theory(freqs, order))
    [] src = "empirical" ->
         Call("build_F_empirical",
              build_F_empirical(templates, freqs, mask, order, existing))
    [] OTHER -> [called |-> <<>>, res |-> Raised(UnknownSource, {})]

-----------------------------------------------------------------------------
(* ILCConstraints *)

ColumnsToAlignIgnoringArg(reference_vectors, F_cols) == reference_vectors.keys

\* if F_cols is None: F_cols = list(reference_vectors.keys())
ColumnsToAlign(reference_vectors, F_cols) ==
  IF ~F_cols.given THEN reference_vectors.keys ELSE F_cols.val

find_f_from_extract_comp(F, extract_comp_or_comps, reference_vectors, F_cols) ==
  LET names == AsList(extract_comp_or_comps)
      r == find_f_from_names(ColumnsToAlign(reference_vectors, F_cols),
                             [kind |-> "list", val |-> names])
  IN [r EXCEPT !.idxs = <<>>]

-----------------------------------------------------------------------------
(* DownloadData *)

\* No realisation (realisation=None): the foregrounds
NoRealisation == 0 - 1

\* file_template.format(frequency=..., realisation=...): the file of a
\* component's map
FileName(component, frequency, realisation) == <<component, frequency, realisation>>

\* os.path.join(self.directory, "cmb_spectrum_theory.txt")
SpectrumTheory == <<<<"cmb_spectrum_theory.txt">>, "", NoRealisation>>
SpectrumPlanck == <<<<"cmb_spectrum.txt">>, "", NoRealisation>>
SpectrumUrl == <<<<"COM_PowerSpect_CMB-TT-full_R3.01.txt">>, "", NoRealisation>>

\* self.file_templates["cmb"].format(realisation=realisation, lmax=1023)
CmbFile(realisation) == <<cmb, "", realisation>>

\* The last realisation that has an ffp10 noise map
LastNoiseRealisation == 299

Disk(fs, reqs, wr, raised) == [files |-> fs, http |-> reqs, written |-> wr, raised |-> raised]

ExistsNever(filename, fs) == FALSE

\* os.path.exists(filename)
Exists(filename, fs) == filename \in fs

\* download_foreground_component(component, frequency, realisation), the
\* server answering with status
download_foreground_component(component, frequency, realisation, status, d) ==
  LET filename == FileName(component, frequency, realisation)
      url == <<component, frequency, realisation>>
  IN IF Exists(filename, d.files) THEN d
     ELSE IF status = 200
       THEN Disk(d.files \cup {filename}, d.http \cup {url},
                 d.written \cup {filename}, FALSE)
       ELSE Disk(d.files, d.http \cup {url}, d.written, TRUE)

\* download_cmb_spectrum(), resp.raise_for_status() passing or not
download_cmb_spectrum(passes, d) ==
  IF Exists(SpectrumTheory, d.files) THEN d
  ELSE IF passes
    THEN Disk(d.files \cup {SpectrumTheory}, d.http \cup {SpectrumUrl},
              d.written \cup {SpectrumTheory}, FALSE)
    ELSE Disk(d.files, d.http \cup {SpectrumUrl}, d.written, TRUE)

\* generate_and_save_cmb_realisation(realisation, overwrite)
generate_and_save_cmb_realisation(realisation, ow, d) ==
  LET filename == CmbFile(realisation) IN
  IF Exists(filename, d.files) /\ ow = FALSE THEN d
  ELSE IF Exists(SpectrumTheory, d.files) \/ Exists(SpectrumPlanck, d.files)
    THEN Disk(d.files \cup {filename}, d.http, d.written \cup {filename}, FALSE)
    ELSE Disk(d.files, d.http, d.written, TRUE)

-----------------------------------------------------------------------------
(* The variables of the parts a specification does not exercise *)

IdleN ==
  /\ pcN = "idle" /\ component_names = <<>>
  /\ selected = [kind |-> "list", val |-> <<>>]
  /\ fnres = NoResult /\ fnprev = NoResult

IdleB ==
  /\ pcB = "idle" /\ source = "theory" /\ components_order = NoneArg
  /\ frequencies = NoneArg /\ file_templates = EmptyDict /\ disk = {}
  /\ mask_path = "" /\ bres = NotBuilt /\ entered = <<>> /\ reads = {}

IdleA ==
  /\ target = [kind |-> "list", val |-> <<>>] /\ F_cols_arg = NoneArg
  /\ refvec_arg = EmptyDict /\ ares = NoResult

IdleD ==
  /\ pcD = "idle" /\ components = <<>> /\ dl_frequencies = <<>>
  /\ realisations = 0 /\ start_realisation = 0 /\ overwrite = FALSE
  /\ files = {} /\ ci = 0 /\ fi = 0 /\ ri = 0 /\ http = {}
  /\ written = {} /\ run = 0 /\ prevrun = "none"

-----------------------------------------------------------------------------
(* Specification of find_f_from_names: Init draws the arguments *)

\* Case-insensitive equality of two names, stated without str.lower()
CasePairs == {{"c", "C"}, {"m", "M"}, {"b", "B"}, {"t", "T"}, {"s", "S"}, {"z", "Z"}}

EqIgnoreCase(a, b) ==
  /\ Len(a) = Len(b)
  /\ \A i \in DOMAIN a : a[i] = b[i] \/ {a[i], b[i]} \in CasePairs

NamePool == {cmb, Cmb, tsz, foo}

Selections ==
  {[kind |-> "str", val |-> n] : n \in NamePool}
    \cup {[kind |-> "list", val |-> l] : l \in SeqsUpTo(NamePool, MaxSel)}

InitNames ==
  /\ pcN = "args"
  /\ component_names \in SeqsUpTo(NamePool, MaxNames)
  /\ selected \in Selections
  /\ fnres = NoResult /\ fnprev = NoResult
  /\ IdleB /\ IdleA /\ IdleD

CallFindF ==
  /\ pcN = "args"
  /\ fnres' = find_f_from_names(component_names, selected)
  /\ pcN' = "returned"
  /\ UNCHANGED <<component_names, selected, fnprev, varsB, varsA, varsD>>

\* lst with x put at position p
InsertAt(lst, p, x) == SubSeq(lst, 1, p - 1) \o <<x>> \o SubSeq(lst, p, Len(lst))

\* The same call with one selected name repeated, in any letter case,
\* somewhere after the name it repeats.
CallFindFRepeat ==
  /\ pcN = "returned"
  /\ \E j \in DOMAIN AsList(selected), v \in NamePool :
       \E p \in (j + 1)..(Len(AsList(selected)) + 1) :
         /\ EqIgnoreCase(v, AsList(selected)[j])
         /\ selected' = [kind |-> "list", val |-> InsertAt(AsList(selected), p, v)]
  /\ fnprev' = fnres
  /\ fnres' = find_f_from_names(component_names, selected')
  /\ pcN' = "repeated"
  /\ UNCHANGED <<component_names, varsB, varsA, varsD>>

NextNames == CallFindF \/ CallFindFRepeat

SpecNames == InitNames /\ [][NextNames]_vars

-----------------------------------------------------------------------------
(* Specification of the builders: Init draws the arguments of one call *)

OrderPool == {cmb, Cmb, tsz, sync, foo}

Orders == {NoneArg} \cup {Arg(o) : o \in SeqsUpTo(OrderPool, MaxOrder)}

FrequencyLists == {Arg(SubSeq(PlanckFrequencies, 1, k)) : k \in 0..MaxFreq}

cmb_template == "cmb_f{frequency}_r{realisation}.fits"
tsz_template == "tsz_f{frequency}_r{realisation}.fits"

\* file_templates: cmb absent, None or a template; tsz absent or a template
TemplateDicts ==
  {Dict(<<>>, <<>>),
   Dict(<<cmb>>, [c \in {cmb} |-> "None"]),
   Dict(<<cmb>>, [c \in {cmb} |-> cmb_template]),
   Dict(<<tsz>>, [c \in {tsz} |-> tsz_template]),
   Dict(<<cmb, tsz>>, [c \in {cmb, tsz} |-> IF c = cmb THEN "None" ELSE tsz_template]),
   Dict(<<cmb, tsz>>, [c \in {cmb, tsz} |-> IF c = cmb THEN cmb_template ELSE tsz_template])}

\* The map files that may be on disk
DiskPool ==
  {MapPath(cmb_template, "030"), MapPath(cmb_template, "044"),
   MapPath(tsz_template, "030")}

NoEmpiricalInputs == file_templates = EmptyDict /\ disk = {} /\ mask_path = ""

InitBuild ==
  /\ pcB = "args"
  /\ source \in {"theory", "empirical", "bogus"}
  /\ components_order \in Orders
  /\ IF source = "empirical"
       THEN /\ frequencies \in FrequencyLists
            /\ file_templates \in TemplateDicts
            /\ disk \in SUBSET DiskPool
            /\ mask_path \in {"", "mask.fits"}
       ELSE /\ frequencies \in FrequencyLists \cup {NoneArg}
            /\ NoEmpiricalInputs
  /\ bres = NotBuilt /\ entered = <<>> /\ reads = {}
  /\ IdleN /\ IdleA /\ IdleD

ReadsOf(called) ==
  IF called = <<"build_F_empirical">>
    THEN EmpiricalReads(file_templates, frequencies, mask_path, components_order, disk)
    ELSE {}

\* SpectralVector.get_F(source, ...)
GetF ==
  /\ pcB = "args"
  /\ LET r == get_F(source, file_templates, frequencies, mask_path,
                    components_order, disk)
     IN /\ bres' = r.res
        /\ entered' = <<"get_F">> \o r.called
        /\ reads' = ReadsOf(r.called)
  /\ pcB' = "built"
  /\ UNCHANGED <<source, components_order, frequencies, file_templates, disk,
                 mask_path, varsN, varsA, varsD>>

\* SpectralVector.build_F_theory(...) called directly
CallBuildTheory ==
  /\ pcB = "args" /\ source = "theory"
  /\ bres' = build_F_theory(frequencies, components_order)
  /\ entered' = <<"build_F_theory">>
  /\ reads' = {}
  /\ pcB' = "built"
  /\ UNCHANGED <<source, components_order, frequencies, file_templates, disk,
                 mask_path, varsN, varsA, varsD>>

\* SpectralVector.build_F_empirical(...) called directly
CallBuildEmpirical ==
  /\ pcB = "args" /\ source = "empirical"
  /\ bres' = build_F_empirical(file_templates, frequencies, mask_path,
                               components_order, disk)
  /\ entered' = <<"build_F_empirical">>
  /\ reads' = ReadsOf(entered')
  /\ pcB' = "built"
  /\ UNCHANGED <<source, components_order, frequencies, file_templates, disk,
                 mask_path, varsN, varsA, varsD>>

NextBuild == GetF \/ CallBuildTheory \/ CallBuildEmpirical

SpecBuild == InitBuild /\ [][NextBuild]_vars

-----------------------------------------------------------------------------
(* Specification of the alignment: a build through get_F, then            *)
(* find_f_from_extract_comp on what it returned                            *)

InitAlign ==
  /\ pcB = "args"
  /\ source \in {"theory", "empirical"}
  /\ components_order \in Orders
  /\ frequencies = Arg(<<"030">>)
  /\ IF source = "empirical" THEN file_templates \in TemplateDicts
                             ELSE file_templates = EmptyDict
  /\ disk = {} /\ mask_path = ""
  /\ bres = NotBuilt /\ entered = <<>> /\ reads = {}
  /\ IdleN /\ IdleA /\ IdleD

Targets ==
  {[kind |-> "str", val |-> n] : n \in OrderPool}
    \cup {[kind |-> "list", val |-> l] : l \in SeqsUpTo(OrderPool, MaxTarget)}

Reverse(lst) == [i \in DOMAIN lst |-> lst[Len(lst) + 1 - i]]

\* The reference_vectors a caller may hand over: the returned dict, the
\* same entries inserted in the opposite order, an empty dict
RefChoices(d) == {d, Dict(Reverse(d.keys), d.val), EmptyDict}

\* ILCConstraints.find_f_from_extract_comp(F, target, reference_vectors[, F_cols])
ExtractComp ==
  /\ pcB = "built" /\ bres.ok
  /\ \E t \in Targets, passed \in BOOLEAN, d \in RefChoices(bres.reference_vectors) :
       /\ target' = t
       /\ F_cols_arg' = IF passed THEN Arg(bres.F_cols) ELSE NoneArg
       /\ refvec_arg' = d
       /\ ares' = find_f_from_extract_comp(bres.F, t, d, F_cols_arg')
  /\ pcB' = "aligned"
  /\ UNCHANGED <<source, components_order, frequencies, file_templates, disk,
                 mask_path, bres, entered, reads, varsN, varsD>>

NextAlign == GetF \/ ExtractComp

SpecAlign == InitAlign /\ [][NextAlign]_vars

-----------------------------------------------------------------------------
(* Specification of DownloadData: Init draws the configuration, and      *)
(* download_all runs one step at a time, again and again                  *)

MaxRuns == 2

ComponentPool == {dust, noise, cmb}

InitDownload ==
  /\ pcD = "ready"
  /\ components \in SeqsUpTo(ComponentPool, MaxComponents)
  /\ dl_frequencies \in {SubSeq(PlanckFrequencies, 1, k) : k \in 0..MaxFreq}
  /\ realisations \in 0..MaxRealisations
  /\ start_realisation \in {0, LastNoiseRealisation}
  /\ overwrite \in BOOLEAN
  \* the data directory is empty, or holds what an earlier session left
  /\ files \in {{}, {SpectrumTheory, CmbFile(0)}}
  /\ ci = 0 /\ fi = 0 /\ ri = 0
  /\ http = {} /\ written = {} /\ run = 0 /\ prevrun = "none"
  /\ IdleN /\ IdleB /\ IdleA

Config == <<components, dl_frequencies, realisations, start_realisation, overwrite>>

Now == Disk(files, http, written, FALSE)

\* What a step leaves on disk and in the logs; pcD is "error" when it raised
Step(d, next) ==
  /\ files' = d.files /\ http' = d.http /\ written' = d.written
  /\ pcD' = IF d.raised THEN "error" ELSE next

\* download_all() is called
StartRun ==
  /\ pcD \in {"ready", "done", "error"}
  /\ run < MaxRuns
  /\ run' = run + 1
  /\ prevrun' = pcD
  /\ http' = {} /\ written' = {}
  /\ pcD' = "foreground" /\ ci' = 1 /\ fi' = 1 /\ ri' = 0
  /\ UNCHANGED <<Config, files, varsN, varsB, varsA>>

\* for component in self.components: cmb and noise are passed over, and
\* so is a component whose frequencies are done
ForegroundNextComponent ==
  /\ pcD = "foreground" /\ ci <= Len(components)
  /\ components[ci] \in {cmb, noise} \/ fi > Len(dl_frequencies)
  /\ ci' = ci + 1 /\ fi' = 1
  /\ UNCHANGED <<pcD, Config, files, ri, http, written, run, prevrun,
                 varsN, varsB, varsA>>

\* self.download_foreground_component(component, frequency)
ForegroundDownload ==
  /\ pcD = "foreground" /\ ci <= Len(components)
  /\ components[ci] \notin {cmb, noise} /\ fi <= Len(dl_frequencies)
  /\ \E status \in {200, 404} :
       Step(download_foreground_component(components[ci], dl_frequencies[fi],
                                          NoRealisation, status, Now),
            "foreground")
  /\ fi' = fi + 1
  /\ UNCHANGED <<Config, ci, ri, run, prevrun, varsN, varsB, varsA>>

\* self.download_cmb_spectrum()
Spectrum ==
  /\ pcD = "foreground" /\ ci > Len(components)
  /\ \E passes \in BOOLEAN : Step(download_cmb_spectrum(passes, Now), "realisations")
  /\ UNCHANGED <<Config, ci, fi, ri, run, prevrun, varsN, varsB, varsA>>

Realisation == ri + start_realisation

NoiseWanted == noise \in Range(components) /\ ~(Realisation > LastNoiseRealisation)

\* self.generate_and_save_cmb_realisation(realisation, self.overwrite)
CmbRealisation ==
  /\ pcD = "realisations" /\ ri < realisations
  /\ Step(generate_and_save_cmb_realisation(Realisation, overwrite, Now),
          IF NoiseWanted THEN "noise" ELSE "realisations")
  /\ IF pcD' = "realisations" THEN ri' = ri + 1 ELSE ri' = ri
  /\ fi' = 1
  /\ UNCHANGED <<Config, ci, run, prevrun, varsN, varsB, varsA>>

\* self.download_foreground_component("noise", frequency, realisation)
NoiseDownload ==
  /\ pcD = "noise" /\ fi <= Len(dl_frequencies)
  /\ \E status \in {200, 404} :
       Step(download_foreground_component(noise, dl_frequencies[fi],
                                          Realisation, status, Now),
            "noise")
  /\ fi' = fi + 1
  /\ UNCHANGED <<Config, ci, ri, run, prevrun, varsN, varsB, varsA>>

NoiseEnd ==
  /\ pcD = "noise" /\ fi > Len(dl_frequencies)
  /\ pcD' = "realisations" /\ ri' = ri + 1
  /\ UNCHANGED <<Config, files, ci, fi, http, written, run, prevrun,
                 varsN, varsB, varsA>>

\* download_all() returns
Return ==
  /\ pcD = "realisations" /\ ri >= realisations
  /\ pcD' = "done"
  /\ UNCHANGED <<Config, files, ci, fi, ri, http, written, run, prevrun,
                 varsN, varsB, varsA>>

NextDownload ==
  \/ StartRun \/ ForegroundNextComponent \/ ForegroundDownload \/ Spectrum
  \/ CmbRealisation \/ NoiseDownload \/ NoiseEnd \/ Return

SpecDownload == InitDownload /\ [][NextDownload]_vars

-----------------------------------------------------------------------------
(* Claims about find_f_from_names *)

Sel == AsList(selected)

IsSelected(name) == \E k \in DOMAIN Sel : EqIgnoreCase(Sel[k], name)

HasColumn(name) == \E i \in DOMAIN component_names : EqIgnoreCase(component_names[i], name)

AllMatch == \A k \in DOMAIN Sel : HasColumn(Sel[k])

UniqueColumns ==
  \A i, j \in DOMAIN component_names :
    EqIgnoreCase(component_names[i], component_names[j]) => i = j

\* The selected names, one representative (the first) per case-insensitive name
FirstSelections == {k \in DOMAIN Sel : \A j \in 1..(k - 1) : ~EqIgnoreCase(Sel[j], Sel[k])}

Ones(f) == Cardinality({i \in DOMAIN f : f[i] = One})

Indicator ==
  /\ fnres.ok
  /\ Len(fnres.f) = Len(component_names)
  /\ \A i \in DOMAIN component_names :
       /\ fnres.f[i] \in {Zero, One}
       /\ fnres.f[i] = One <=> IsSelected(component_names[i])
  /\ Ones(fnres.f) = Cardinality(FirstSelections)

\* C1 as stated: for every list component_names and every selection whose
\* names all occur in it case-insensitively, f has length len(component_names),
\* f[i] = 1 exactly when component_names[i] is selected (0 otherwise), and
\* sum(f) is the number of distinct selected names.
C1_AnyColumns == (pcN # "args" /\ AllMatch) => Indicator

\* C1 amended: the same, for component_names that holds no name twice
\* (compared case-insensitively).
C1_Indicator == (pcN # "args" /\ AllMatch /\ UniqueColumns) => Indicator

C1_Witness ==
  /\ pcN = "returned" /\ AllMatch /\ UniqueColumns
  /\ Len(component_names) = 3 /\ Len(Sel) = 2
  /\ Sel[1] = Cmb /\ ~EqIgnoreCase(Sel[1], Sel[2])
  /\ Ones(fnres.f) = 2

FirstUnmatched == CHOOSE k \in DOMAIN Sel :
  ~HasColumn(Sel[k]) /\ \A j \in 1..(k - 1) : HasColumn(Sel[j])

\* C2: when some selected name has no case-insensitive match, the call
\* returns no (f, idxs) and fails with a ValueError naming the offending name
\* and the whole of component_names, wherever the name sits in the selection;
\* and it fails in no other case.
C2_NotFound ==
  pcN # "args" =>
    /\ fnres.ok <=> AllMatch
    /\ ~AllMatch =>
         /\ fnres.error = "ValueError"
         /\ fnres.name = Sel[FirstUnmatched]
         /\ fnres.available = component_names
         /\ fnres.f = <<>> /\ fnres.idxs = <<>>

C2_Witness ==
  /\ pcN = "returned" /\ ~fnres.ok
  /\ Len(Sel) = 2 /\ HasColumn(Sel[1]) /\ ~HasColumn(Sel[2])
  /\ fnres.name = Sel[2] /\ Len(component_names) = 2

\* Position (0-based) of the column a selected name maps to
ColumnOf(name) == Index(LowerAll(component_names), Lower(name)) - 1

\* C3: a repeated name, in any letter case, changes neither f nor idxs; no
\* index is listed twice in idxs; idxs lists the matched columns in the order
\* in which their names were first selected.
C3_Idempotent ==
  /\ pcN = "repeated" => fnres = fnprev
  /\ (pcN # "args" /\ fnres.ok) =>
       /\ \A p, q \in DOMAIN fnres.idxs : fnres.idxs[p] = fnres.idxs[q] => p = q
       /\ Len(fnres.idxs) = Cardinality(FirstSelections)
       /\ \A p \in DOMAIN fnres.idxs :
            \E k \in FirstSelections :
              /\ fnres.idxs[p] = ColumnOf(Sel[k])
              /\ Cardinality({j \in FirstSelections : j < k}) = p - 1

C3_Witness ==
  /\ pcN = "repeated" /\ fnres.ok
  /\ Len(Sel) = 3 /\ Sel[1] = cmb /\ Sel[3] = Cmb
  /\ fnres.idxs = <<1, 0>> /\ fnprev.idxs = <<1, 0>>

-----------------------------------------------------------------------------
(* Claims about SpectralVector *)

EnteredTheory == pcB # "args" /\ entered # <<>> /\ entered[Len(entered)] = "build_F_theory"

EnteredEmpirical == pcB # "args" /\ entered # <<>> /\ entered[Len(entered)] = "build_F_empirical"

\* The lower-case spelling of a name, among the names in keys
Spelling(name, keys) == CHOOSE k \in keys : EqIgnoreCase(name, k)

RECURSIVE Supported(_, _)
\* The names of lst that are, case-insensitively, in keys; lower-case, in order
Supported(lst, keys) ==
  IF lst = <<>> THEN <<>>
  ELSE LET rest == Supported(Tail(lst), keys) IN
       IF \E k \in keys : EqIgnoreCase(Head(lst), k)
         THEN <<Spelling(Head(lst), keys)>> \o rest
         ELSE rest

N_frequencies == IF frequencies.given THEN Len(frequencies.val) ELSE 9

\* C4: build_F_theory never fails on the requested names.  F_cols is the
\* lower-cased requested names that are in {cmb, tsz, sync}, in the caller's
\* order, the others dropped; [cmb, tsz, sync] when no order is given; F has
\* shape (N_frequencies, len(F_cols)), also when F_cols is empty.
C4_TheoryColumns ==
  EnteredTheory =>
    /\ bres.ok
    /\ bres.F_cols = IF components_order.given
                       THEN Supported(components_order.val, TheoryKeys)
                       ELSE <<cmb, tsz, sync>>
    /\ bres.F.shape = <<N_frequencies, Len(bres.F_cols)>>
    /\ Len(bres.F.cols) = Len(bres.F_cols)

C4_Witness ==
  /\ EnteredTheory /\ bres.ok
  /\ components_order = Arg(<<foo, Cmb>>)
  /\ bres.F_cols = <<cmb>>
  /\ bres.F.shape = <<2, 1>>

TemplateKeys == {c \in Range(file_templates.keys) : file_templates.val[c] # "None"}

\* C5: build_F_empirical sets F_cols to the requested order (the default
\* only when none is requested) restricted to the names with a non-null
\* template, in the order of the request; it fails with a ValueError, and
\* returns no matrix, exactly when that is empty.
C5_EmpiricalColumns ==
  EnteredEmpirical =>
    LET requested == IF components_order.given THEN components_order.val
                                               ELSE <<cmb, tsz, sync>>
        expected == Supported(requested, TemplateKeys)
    IN IF expected = <<>>
         THEN ~bres.ok /\ bres.error = "ValueError" /\ bres.F = NoMatrix
         ELSE bres.ok /\ bres.F_cols = expected /\ bres.F.shape[2] >= 1

PathOf(c, i) == MapPath(file_templates.val[c], frequencies.val[i])

\* C6: in build_F_empirical a missing map file is no error.  The call fails
\* only for want of a valid component; otherwise F has shape
\* (len(frequencies), len(F_cols)), an entry whose file is missing is 0.0 and
\* its file is not read, and an entry whose file exists is the sanitised mean
\* of that file whatever other files are missing.
C6_MissingFiles ==
  EnteredEmpirical =>
    /\ ~bres.ok => bres.msg = NoValidComponents /\ TemplateKeys \cap Range(LowerAll(
                      IF components_order.given /\ components_order.val # <<>>
                        THEN components_order.val ELSE <<cmb, tsz, sync>>)) = {}
    /\ bres.ok =>
         /\ bres.F.shape = <<Len(frequencies.val), Len(bres.F_cols)>>
         /\ \A j \in DOMAIN bres.F_cols, i \in DOMAIN frequencies.val :
              LET path == PathOf(bres.F_cols[j], i) IN
              IF path \in disk
                THEN /\ path \in reads
                     /\ bres.F.cols[j][i] =
                          IF PixelsOf(path) = "finite"
                            THEN <<"mean", path[2], path[3], mask_path>>
                            ELSE Zero
                ELSE /\ path \notin reads
                     /\ bres.F.cols[j][i] = Zero

C6_Witness ==
  /\ EnteredEmpirical /\ bres.ok
  /\ bres.F_cols = <<tsz, cmb>>
  /\ frequencies.val = <<"030", "044">>
  /\ disk = {MapPath(cmb_template, "030")}
  /\ bres.F.cols[1] = <<Zero, Zero>>
  /\ bres.F.cols[2] = <<<<"mean", cmb_template, "030", "">>, Zero>>

\* C7: get_F dispatches on source alone: "theory" returns what
\* build_F_theory returns, "empirical" what build_F_empirical returns, and
\* any other value fails with a ValueError whose message mentions the invalid
\* value, neither builder being called.
C7_Dispatch ==
  (pcB # "args" /\ entered # <<>> /\ entered[1] = "get_F") =>
    CASE source = "theory" ->
           /\ entered = <<"get_F", "build_F_theory">>
           /\ bres = build_F_theory(frequencies, components_order)
      [] source = "empirical" ->
           /\ entered = <<"get_F", "build_F_empirical">>
           /\ bres = build_F_empirical(file_templates, frequencies, mask_path,
                                       components_order, disk)
      [] OTHER ->
           /\ entered = <<"get_F">>
           /\ ~bres.ok /\ bres.error = "ValueError"
           /\ source \in bres.mentions

-----------------------------------------------------------------------------
(* Claims about ILCConstraints *)

Aligned == pcB = "aligned"

\* C8: with F_cols supplied, find_f_from_extract_comp returns the f of
\* find_f_from_names(F_cols, target), whatever reference_vectors holds, and
\* fails as find_f_from_names does exactly when a target name is not in
\* F_cols.
C8_RoundTrip ==
  (Aligned /\ F_cols_arg.given) =>
    LET direct == find_f_from_names(bres.F_cols, target) IN
    /\ ares.ok = direct.ok
    /\ ares.f = direct.f
    /\ ares.ok <=> \A k \in DOMAIN AsList(target) :
                     \E j \in DOMAIN bres.F_cols :
                       EqIgnoreCase(bres.F_cols[j], AsList(target)[k])
    /\ ~ares.ok => /\ ares.error = "ValueError"
                   /\ ares.name = direct.name
                   /\ ares.available = bres.F_cols

C8_Witness ==
  /\ Aligned /\ F_cols_arg.given
  /\ bres.F_cols = <<sync, cmb>>
  /\ refvec_arg.keys = <<cmb, sync>>
  /\ target = [kind |-> "str", val |-> Cmb]
  /\ ares.ok /\ ares.f = <<Zero, One>>

TargetInCols ==
  \A k \in DOMAIN AsList(target) :
    \E j \in DOMAIN bres.F_cols : EqIgnoreCase(bres.F_cols[j], AsList(target)[k])

\* C9: with F_cols omitted and the returned reference_vectors handed over,
\* for any components_order and any target in F_cols, f has length F.shape[1]
\* and equals the f obtained when the returned F_cols is passed.
C9_Fallback ==
  (Aligned /\ ~F_cols_arg.given /\ refvec_arg.keys = bres.reference_vectors.keys
     /\ AsList(target) # <<>> /\ TargetInCols) =>
    /\ ares.ok
    /\ Len(ares.f) = bres.F.shape[2]
    /\ ares.f = find_f_from_extract_comp(bres.F, target, refvec_arg,
                                         Arg(bres.F_cols)).f

-----------------------------------------------------------------------------
(* Claims about DownloadData *)

Rerun == run >= 2 /\ prevrun = "done" /\ overwrite = FALSE

\* C10: a download_all() after one that completed, on the same configuration
\* with overwrite False, sends no HTTP request and writes no file, every step
\* finding its file; in a run no CMB realisation is generated before the
\* spectrum step has completed; noise is requested only for realisations up
\* to 299.
C10_RerunNoOp ==
  /\ Rerun => http = {} /\ written = {} /\ pcD # "error"
  /\ pcD = "foreground" => \A r \in 0..(LastNoiseRealisation + MaxRealisations) :
                             CmbFile(r) \notin written
  /\ (\E r \in 0..(LastNoiseRealisation + MaxRealisations) : CmbFile(r) \in written)
       => SpectrumTheory \in files
  /\ \A u \in http : u[1] = noise => u[3] <= LastNoiseRealisation

C10_Witness ==
  /\ Rerun /\ pcD = "done"
  /\ components = <<dust, noise>>
  /\ realisations = 2 /\ start_realisation = LastNoiseRealisation
  /\ Len(dl_frequencies) = 1
  /\ files = {FileName(dust, "030", NoRealisation), SpectrumTheory,
              CmbFile(299), CmbFile(300), FileName(noise, "030", 299)}

====
